---- MODULE Spec2Model ----
(***************************************************************************)
(* Model of lib/gosu-process-name.js: the process-ID enumerator            *)
(* (getProcessIDList over _retrieveNProcesses), the process-name resolver  *)
(* (getProcessName) and the facade built on the generator                  *)
(* processNameIterator (getProcessNameList, checkProcessIsRunning).        *)
(*                                                                         *)
(* Two specifications share the definitions:                               *)
(*   Spec      the facade over a small process table, one action per step  *)
(*             of the generator and of its consumer;                       *)
(*   SpecEnum  the capacity-probing loop of getProcessIDList, one action   *)
(*             per iteration, over process tables around the probed        *)
(*             capacities, with the table allowed to change under it.      *)
(***************************************************************************)
EXTENDS Integers, Sequences, FiniteSets, TLC

VARIABLES
  osTable,            \* OS: identifiers of the live processes, in OS order
  osOutcome,          \* OS: per identifier, what the native calls do for it
  op,                 \* facade: "idle", "list" or "check"
  query,              \* facade: processName argument of checkProcessIsRunning
  gen,                \* generator: "none", "start", "loop", "closed", "done"
  processIDList,      \* generator local (line 93)
  i,                  \* generator local (line 94), 1-based here
  out,                \* the array the spread of line 104 is building
  result,             \* value returned by the running facade call
  resolved,           \* history: identifiers handed to getProcessName in this call
  lastCall,           \* history: the latest getProcessName call and its native calls
  openHandles,        \* history: handles opened by OpenProcess and not closed
  enumPasses,         \* history: getProcessIDList calls made by this facade call
  prevOut,            \* history: result of the previous completed full drain
  opsDone,            \* history: completed facade calls
  epc,                \* enumerator: "idle", "loop", "exit", "returned"
  expectedProcessNum, \* enumerator local (line 47)
  processNum,         \* enumerator local (line 48)
  aProcesses,         \* enumerator local (line 49)
  idList,             \* value returned by getProcessIDList
  calls,              \* history: the EnumProcesses requests of this call
  stable              \* history: the process table did not change during this call

osVars   == <<osTable, osOutcome>>
facVars  == <<op, query, gen, processIDList, i, out, result, resolved,
              lastCall, openHandles, enumPasses, prevOut, opsDone>>
enumVars == <<epc, expectedProcessNum, processNum, aProcesses, idList, calls, stable>>
vars     == <<osVars, facVars, enumVars>>

----------------------------------------------------------------------------
(* Program constants *)

QUERY_SIZE == 2048

MAX_PROCESS_NAME_LENGTH == 32

DWordSize == 4

NULL == 0

(* Bounds of the model *)

MaxProcs == 2

MaxNameLen == 1

MaxOps == 2

MaxDoublings == 2

SaneProbes == 2

Chars == {97, 98}

Min(a, b) == IF a <= b THEN a ELSE b

RECURSIVE Pow2(_)
Pow2(k) == IF k = 0 THEN 1 ELSE 2 * Pow2(k - 1)

MaxCapacity == QUERY_SIZE * Pow2(MaxDoublings)

Caps == {QUERY_SIZE * Pow2(k) : k \in 0..MaxDoublings}

TableSizes == {0, 1} \cup UNION {{c - 1, c, c + 1} : c \in Caps}

Names == UNION {[1..n -> Chars] : n \in 0..MaxNameLen}

Outcomes ==
  {[kind |-> "openfail", base |-> <<>>], [kind |-> "modfail", base |-> <<>>]}
  \cup {[kind |-> "ok", base |-> b] : b \in Names}

----------------------------------------------------------------------------
(* The operating system.  Byte counts are DWORDs; every count of the model  *)
(* stays below 2^17, far from the 32-bit wrap.                              *)

PidTable(n) == [j \in 1..n |-> 4 * j]

EnumProcesses(table, cb) ==
  LET count == Min(Len(table), cb \div DWordSize)
  IN  [ids |-> SubSeq(table, 1, count), cbNeeded |-> count * DWordSize]

OpenProcess(pid) ==
  IF pid \in DOMAIN osOutcome /\ osOutcome[pid].kind # "openfail" THEN pid ELSE NULL

EnumProcessModules(hProcess) == osOutcome[hProcess].kind = "ok"

K32GetModuleBaseNameA(hProcess, buffer, nSize) ==
  LET base == osOutcome[hProcess].base
      n == Min(Len(base), nSize)
  IN  [j \in 1..Len(buffer) |-> IF j <= n THEN base[j] ELSE buffer[j]]

ReadCString(buffer) ==
  LET zeros == {j \in 1..Len(buffer) : buffer[j] = 0}
      end == IF zeros = {} THEN Len(buffer)
             ELSE (CHOOSE j \in zeros : \A k \in zeros : j <= k) - 1
  IN  SubSeq(buffer, 1, end)

----------------------------------------------------------------------------
(* Process-ID enumerator *)

RetrieveNProcesses(n, table) ==
  LET r == EnumProcesses(table, DWordSize * n)
  IN  [aProcesses |-> [j \in 1..n |-> IF j <= Len(r.ids) THEN r.ids[j] ELSE 0],
       processNum |-> r.cbNeeded \div DWordSize]

InitialExpected == QUERY_SIZE \div 2

GrowCapacity_Linear(n) == n + QUERY_SIZE

GrowCapacity(n) == n * 2

BufferIsFull_Never(num, expected) == num > expected

BufferIsFull(num, expected) == num = expected

SetLength(arr, n) == [j \in 1..n |-> IF j <= Len(arr) THEN arr[j] ELSE 0]

RECURSIVE ProbeLoop(_, _)
ProbeLoop(expected, table) ==
  LET n == GrowCapacity(expected)
      r == RetrieveNProcesses(n, table)
  IN  IF BufferIsFull(r.processNum, n)
      THEN ProbeLoop(n, table)
      ELSE SetLength(r.aProcesses, r.processNum)

GetProcessIDList == ProbeLoop(InitialExpected, osTable)

----------------------------------------------------------------------------
(* Process-name resolver *)

Undefined == [defined |-> FALSE, str |-> <<>>]

GetProcessName_NoSuccessCheck(pid) ==
  LET hProcess == OpenProcess(pid)
  IN  IF hProcess # NULL
      THEN LET theStringBuffer == [j \in 1..MAX_PROCESS_NAME_LENGTH |-> 0]
               filled == K32GetModuleBaseNameA(hProcess, theStringBuffer,
                                               Len(theStringBuffer))
           IN  [ret |-> [defined |-> TRUE, str |-> ReadCString(filled)],
                trace |-> <<"OpenProcess", "EnumProcessModules",
                            "K32GetModuleBaseNameA">>,
                opened |-> 1]
      ELSE [ret |-> Undefined, trace |-> <<"OpenProcess">>, opened |-> 0]

GetProcessName(pid) ==
  LET hProcess == OpenProcess(pid)
  IN  IF hProcess # NULL
      THEN LET success == EnumProcessModules(hProcess)
           IN  IF success
               THEN LET theStringBuffer == [j \in 1..MAX_PROCESS_NAME_LENGTH |-> 0]
                        filled == K32GetModuleBaseNameA(hProcess, theStringBuffer,
                                                        Len(theStringBuffer))
                    IN  [ret |-> [defined |-> TRUE, str |-> ReadCString(filled)],
                         trace |-> <<"OpenProcess", "EnumProcessModules",
                                     "K32GetModuleBaseNameA">>,
                         opened |-> 1]
               ELSE [ret |-> Undefined,
                     trace |-> <<"OpenProcess", "EnumProcessModules">>,
                     opened |-> 1]
      ELSE [ret |-> Undefined, trace |-> <<"OpenProcess">>, opened |-> 0]

Truthy_DefinedOnly(v) == v.defined

Truthy(v) == v.defined /\ v.str # <<>>

----------------------------------------------------------------------------
(* Iteration / query facade *)

IterInitIndex_Shared == IF i < 1 THEN 1 ELSE i

IterInitIndex == 1

LoopContinues_OffByOne(idx, list) == idx < Len(list)

LoopContinues(idx, list) == idx <= Len(list)

NextIndex(idx) == idx + 1

IsMatch_Prefix(runningProcessName, processName) ==
  /\ Len(processName) <= Len(runningProcessName)
  /\ SubSeq(runningProcessName, 1, Len(processName)) = processName

IsMatch_Never(runningProcessName, processName) == FALSE

IsMatch(runningProcessName, processName) == runningProcessName = processName

NoResult == [kind |-> "none", b |-> FALSE, names |-> <<>>]

NoCall == [pid |-> NULL, ret |-> Undefined, trace |-> <<>>]

NoPrev == [has |-> FALSE, names |-> <<>>]

FacInit ==
  /\ op = "idle"
  /\ query = <<>>
  /\ gen = "none"
  /\ processIDList = <<>>
  /\ i = 0
  /\ out = <<>>
  /\ result = NoResult
  /\ resolved = <<>>
  /\ lastCall = NoCall
  /\ openHandles = 0
  /\ enumPasses = 0
  /\ prevOut = NoPrev
  /\ opsDone = 0

EnumIdle ==
  /\ epc = "idle"
  /\ expectedProcessNum = 0
  /\ processNum = 0
  /\ aProcesses = <<>>
  /\ idList = <<>>
  /\ calls = <<>>
  /\ stable = TRUE

Init ==
  /\ \E n \in 0..MaxProcs :
       /\ osTable = PidTable(n)
       /\ osOutcome \in [{4 * j : j \in 1..n} -> Outcomes]
  /\ FacInit
  /\ EnumIdle

CallGetProcessNameList ==
  /\ op = "idle"
  /\ opsDone < MaxOps
  /\ op' = "list"
  /\ gen' = "start"
  /\ UNCHANGED <<query, processIDList, i, out, result, resolved, lastCall,
                 openHandles, enumPasses, prevOut, opsDone>>
  /\ UNCHANGED <<osVars, enumVars>>

CallCheckProcessIsRunning ==
  /\ op = "idle"
  /\ opsDone < MaxOps
  /\ \E processName \in Names : query' = processName
  /\ op' = "check"
  /\ gen' = "start"
  /\ UNCHANGED <<processIDList, i, out, result, resolved, lastCall,
                 openHandles, enumPasses, prevOut, opsDone>>
  /\ UNCHANGED <<osVars, enumVars>>

IteratorStart ==
  /\ gen = "start"
  /\ processIDList' = GetProcessIDList
  /\ i' = IterInitIndex
  /\ enumPasses' = enumPasses + 1
  /\ gen' = "loop"
  /\ UNCHANGED <<op, query, out, result, resolved, lastCall, openHandles,
                 prevOut, opsDone>>
  /\ UNCHANGED <<osVars, enumVars>>

Resolve(r) ==
  /\ resolved' = Append(resolved, processIDList[i])
  /\ lastCall' = [pid |-> processIDList[i], ret |-> r.ret, trace |-> r.trace]
  /\ openHandles' = openHandles + r.opened
  /\ i' = NextIndex(i)

IteratorSkip ==
  /\ gen = "loop"
  /\ LoopContinues(i, processIDList)
  /\ LET r == GetProcessName(processIDList[i])
     IN  /\ ~Truthy(r.ret)
         /\ Resolve(r)
  /\ UNCHANGED <<op, query, gen, processIDList, out, result, enumPasses,
                 prevOut, opsDone>>
  /\ UNCHANGED <<osVars, enumVars>>

YieldToList ==
  /\ gen = "loop"
  /\ op = "list"
  /\ LoopContinues(i, processIDList)
  /\ LET r == GetProcessName(processIDList[i])
     IN  /\ Truthy(r.ret)
         /\ Resolve(r)
         /\ out' = Append(out, r.ret.str)
  /\ UNCHANGED <<op, query, gen, processIDList, result, enumPasses,
                 prevOut, opsDone>>
  /\ UNCHANGED <<osVars, enumVars>>

YieldToCheck ==
  /\ gen = "loop"
  /\ op = "check"
  /\ LoopContinues(i, processIDList)
  /\ LET r == GetProcessName(processIDList[i])
     IN  /\ Truthy(r.ret)
         /\ Resolve(r)
         /\ IF IsMatch(r.ret.str, query)
            THEN /\ result' = [kind |-> "bool", b |-> TRUE, names |-> <<>>]
                 /\ gen' = "closed"
            ELSE UNCHANGED <<result, gen>>
  /\ UNCHANGED <<op, query, processIDList, out, enumPasses, prevOut, opsDone>>
  /\ UNCHANGED <<osVars, enumVars>>

IteratorEnd ==
  /\ gen = "loop"
  /\ ~LoopContinues(i, processIDList)
  /\ gen' = "done"
  /\ result' = IF op = "list"
               THEN [kind |-> "list", b |-> FALSE, names |-> out]
               ELSE [kind |-> "bool", b |-> FALSE, names |-> <<>>]
  /\ UNCHANGED <<op, query, processIDList, i, out, resolved, lastCall,
                 openHandles, enumPasses, prevOut, opsDone>>
  /\ UNCHANGED <<osVars, enumVars>>

OperationReturn ==
  /\ result.kind # "none"
  /\ prevOut' = IF op = "list" THEN [has |-> TRUE, names |-> result.names] ELSE prevOut
  /\ opsDone' = opsDone + 1
  /\ op' = "idle"
  /\ query' = <<>>
  /\ gen' = "none"
  /\ processIDList' = <<>>
  /\ out' = <<>>
  /\ result' = NoResult
  /\ resolved' = <<>>
  /\ lastCall' = NoCall
  /\ enumPasses' = 0
  /\ UNCHANGED <<i, openHandles>>
  /\ UNCHANGED <<osVars, enumVars>>

Next ==
  \/ CallGetProcessNameList
  \/ CallCheckProcessIsRunning
  \/ IteratorStart
  \/ IteratorSkip
  \/ YieldToList
  \/ YieldToCheck
  \/ IteratorEnd
  \/ OperationReturn

Spec == Init /\ [][Next]_vars

----------------------------------------------------------------------------
(* The enumerator, iteration by iteration *)

InitEnum ==
  /\ \E n \in TableSizes : osTable = PidTable(n)
  /\ osOutcome = <<>>
  /\ FacInit
  /\ EnumIdle

EnterGetProcessIDList ==
  /\ epc = "idle"
  /\ epc' = "loop"
  /\ expectedProcessNum' = InitialExpected
  /\ processNum' = 0
  /\ aProcesses' = <<>>
  /\ UNCHANGED <<idList, calls, stable>>
  /\ UNCHANGED <<osVars, facVars>>

Probe ==
  /\ epc = "loop"
  /\ GrowCapacity(expectedProcessNum) <= MaxCapacity
  /\ LET n == GrowCapacity(expectedProcessNum)
         r == RetrieveNProcesses(n, osTable)
     IN  /\ expectedProcessNum' = n
         /\ aProcesses' = r.aProcesses
         /\ processNum' = r.processNum
         /\ calls' = Append(calls, [requested |-> n, written |-> r.processNum,
                                    live |-> Len(osTable)])
         /\ epc' = IF BufferIsFull(r.processNum, n) THEN "loop" ELSE "exit"
  /\ UNCHANGED <<idList, stable>>
  /\ UNCHANGED <<osVars, facVars>>

ReturnIDList ==
  /\ epc = "exit"
  /\ idList' = SetLength(aProcesses, processNum)
  /\ epc' = "returned"
  /\ UNCHANGED <<expectedProcessNum, processNum, aProcesses, calls, stable>>
  /\ UNCHANGED <<osVars, facVars>>

ProcessesChange ==
  /\ epc = "loop"
  /\ stable
  /\ \E n \in TableSizes \ {Len(osTable)} : osTable' = PidTable(n)
  /\ stable' = FALSE
  /\ UNCHANGED <<osOutcome, epc, expectedProcessNum, processNum, aProcesses,
                 idList, calls>>
  /\ UNCHANGED facVars

NextEnum ==
  \/ EnterGetProcessIDList
  \/ Probe
  \/ ReturnIDList
  \/ ProcessesChange

SpecEnum == InitEnum /\ [][NextEnum]_vars

----------------------------------------------------------------------------
(* What the operating system holds, read off its state directly *)

Opens(pid) == osOutcome[pid].kind # "openfail"

ReachesBaseName(pid) == osOutcome[pid].kind = "ok"

HasName(pid) == ReachesBaseName(pid) /\ osOutcome[pid].base # <<>>

BaseNames(pids) == [k \in 1..Len(pids) |-> osOutcome[pids[k]].base]

NameSequence == BaseNames(SelectSeq(osTable, HasName))

ListReturned == op = "list" /\ result.kind = "list"

CheckReturned == op = "check" /\ result.kind = "bool"

MatchIndexes == {k \in 1..Len(osTable) : HasName(osTable[k])
                                         /\ osOutcome[osTable[k]].base = query}

FirstMatch == CHOOSE k \in MatchIndexes : \A m \in MatchIndexes : k <= m

LastProbe == calls[Len(calls)]

----------------------------------------------------------------------------
(* Claims *)

\* C1 (as stated): a full drain of processNameIterator(), and so
\* getProcessNameList(), yields exactly the names of the identifiers whose
\* resolution succeeded (getProcessName returned a string rather than
\* undefined), in enumeration order.
C1_DrainYieldsEveryResolvedName ==
  ListReturned => result.names = BaseNames(SelectSeq(osTable, ReachesBaseName))

\* C1 (amended): a full drain yields exactly the names of the identifiers whose
\* resolution returned a non-empty string, one per such identifier, in
\* enumeration order; identifiers resolving to undefined or to the empty
\* string contribute nothing.
C1_DrainYieldsNonEmptyNamesInOrder ==
  ListReturned => /\ result.names = NameSequence
                  /\ Len(result.names) <= Len(osTable)

C1_Witness ==
  /\ ListReturned
  /\ Len(result.names) >= 1
  /\ \E k \in 1..Len(osTable) : ~Opens(osTable[k])
  /\ Len(result.names) < Len(osTable)

\* C2: checkProcessIsRunning(name) returns true exactly when some name of the
\* name sequence of the enumeration equals the queried string, and false
\* otherwise (also for an empty sequence).
C2_CheckIsMembership ==
  CheckReturned =>
    (result.b <=> \E k \in 1..Len(NameSequence) : NameSequence[k] = query)

C2_Witness ==
  /\ CheckReturned
  /\ result.b
  /\ Len(resolved) >= 2
  /\ HasName(resolved[1])

C4_DoublingUntilShort ==
  /\ \A k \in 1..Len(calls) : calls[k].requested = QUERY_SIZE * Pow2(k - 1)
  /\ \A k \in 1..(Len(calls) - 1) : calls[k].written = calls[k].requested
  /\ (epc = "loop" /\ calls # <<>>) => LastProbe.written = LastProbe.requested
  /\ epc \in {"exit", "returned"} =>
       /\ calls # <<>>
       /\ LastProbe.written < LastProbe.requested
  /\ epc = "returned" =>
       idList = SubSeq(PidTable(LastProbe.live), 1, LastProbe.written)

C4_Witness ==
  /\ epc = "returned"
  /\ Len(calls) = 3
  /\ Len(idList) > calls[2].requested

\* C5: getProcessIDList never returns an exactly-full buffer: on return the
\* last OS call wrote fewer entries than requested and the list has exactly
\* that many entries; for a process table that stayed the same during the
\* call the list is the whole table, in OS order.
C5_NeverTruncates ==
  epc = "returned" =>
    /\ LastProbe.written < LastProbe.requested
    /\ Len(idList) = LastProbe.written
    /\ Len(idList) = Min(LastProbe.live, LastProbe.requested)
    /\ stable => idList = osTable

C5_Witness ==
  /\ epc = "returned"
  /\ stable
  /\ Len(osTable) = QUERY_SIZE
  /\ idList = osTable

\* C6: every handle OpenProcess returned inside getProcessName is released
\* before that call returns: no handle acquired by this code is ever left
\* open.
C6_HandlesReleased == openHandles = 0

\* C7: getProcessName returns undefined when OpenProcess fails, making no
\* further native call, and returns undefined when EnumProcessModules fails,
\* making no base-name call.
C7_AbsentOnFailure ==
  lastCall.pid # NULL =>
    /\ ~Opens(lastCall.pid) =>
         /\ ~lastCall.ret.defined
         /\ lastCall.trace = <<"OpenProcess">>
    /\ osOutcome[lastCall.pid].kind = "modfail" =>
         /\ ~lastCall.ret.defined
         /\ lastCall.trace = <<"OpenProcess", "EnumProcessModules">>

C7_Witness ==
  /\ lastCall.pid # NULL
  /\ osOutcome[lastCall.pid].kind = "modfail"
  /\ \E k \in 1..Len(resolved) : ~Opens(resolved[k])

\* C8: a second full drain against the same OS state yields the same names as
\* the first; it enumerates afresh, once, and resolves every identifier again.
C8_Restartable ==
  (ListReturned /\ prevOut.has) =>
    /\ result.names = prevOut.names
    /\ enumPasses = 1
    /\ resolved = osTable

C8_Witness ==
  /\ ListReturned
  /\ prevOut.has
  /\ Len(result.names) >= 1
  /\ openHandles > Len(osTable)

\* C9: when every request comes back full, getProcessIDList stops probing
\* once it is past a sane number of requests and reports an enumeration error.
C9_ProbingBounded == Len(calls) > SaneProbes => epc = "error"

\* C10: an identifier whose resolution returns the empty string is skipped
\* like an absent one: no empty string is ever yielded or listed, and
\* checkProcessIsRunning("") returns false.
C10_NoEmptyName ==
  /\ \A k \in 1..Len(out) : out[k] # <<>>
  /\ \A k \in 1..Len(result.names) : result.names[k] # <<>>
  /\ (CheckReturned /\ query = <<>>) => ~result.b

C10_Witness ==
  /\ CheckReturned
  /\ query = <<>>
  /\ ~result.b
  /\ \E k \in 1..Len(resolved) :
       ReachesBaseName(resolved[k]) /\ osOutcome[resolved[k]].base = <<>>

====
